---- MODULE Spec2Model ----
(***************************************************************************)
(* AptUPI backend: the payment ledger (PaymentService), the confirmation   *)
(* handler (PaymentController), the payout and webhook handlers            *)
(* (UpiController, UpiService) and the on-chain check (AptosService).      *)
(*                                                                         *)
(* Every handler is an async function on one event loop.  A handler runs   *)
(* without interruption between two awaits, and other handlers run while   *)
(* it waits for the database, the chain node or the payout provider.  A    *)
(* handler is therefore one action per external effect: an action is the   *)
(* code from the moment one database statement or outgoing call takes      *)
(* effect up to the next one.  A database statement is atomic.  An await   *)
(* whose result depends on nothing in this state (the chain lookup, the    *)
(* exchange rate) is an input of the action that follows it.               *)
(***************************************************************************)
EXTENDS Integers, Sequences, FiniteSets, Bags, TLC

\* ---------------------------------------------------------------- bounds
MaxRequests == 4        \* HTTP requests the server receives in one behaviour

\* ---------------------------------------------------------------- inputs
Hashes        == {"0xaa", "0xbb"}     \* aptosTransactionHash values submitted
AmountsINR    == {0, 840}             \* amountINR of a request (0 is falsy)
ExchangeRates == {83, 84}             \* values getExchangeRate resolves to
WebhookStatuses  == {"SUCCESS", "FAILED", "PENDING"}
WebhookPayoutIds == {1}              \* payoutId field of a webhook body (never read)
MockOutcomes     == {"PENDING", "FAILED"}
ProviderOutcomes == {"SUCCESS", "FAILED", "PENDING", "", "error"}

Status == {"pending", "confirmed", "completed", "failed"}

\* UpiService.secretKey, and a key that is not the shared secret
secretKey   == "demo_secret_key"
attackerKey == "not_the_secret"

VARIABLES
  payments,     \* table `payments`: row i has id i
  inflight,     \* bag of handlers suspended at an await
  provider,     \* payout requests the provider has been sent
  uuidCount,    \* number of payout identifiers generated so far
  lastOp,       \* the last request handled to its response
  everConfirmed, \* ids of rows whose status has been 'confirmed' at some time
  requests      \* number of requests received so far

vars == <<payments, inflight, provider, uuidCount, lastOp, everConfirmed, requests>>

\* OracleService
VARIABLES
  cache,        \* OracleService.cache: pair -> entry
  now,          \* Date.now()
  fetching,     \* bag of getExchangeRate calls waiting for a source
  lastCall,     \* the last call of getExchangeRate that returned
  rateCalls     \* number of calls of getExchangeRate so far

oracleVars == <<cache, now, fetching, lastCall, rateCalls>>

\* AptosService.listenToPaymentEvents
VARIABLES
  listening,    \* the interval of listenToPaymentEvents is registered
  polling,      \* number of interval callbacks waiting for getAccountTransactions
  ticks,        \* number of times the interval has fired
  callbacks     \* number of times callback(tx) has been called

pollerVars == <<listening, polling, ticks, callbacks>>

\* UPIQRScanner
VARIABLES
  lastScannedData,  \* the string the QR scanner decoded
  scanned,          \* what parseUPIQRCode made of it (onScan gets the UPIData)
  error             \* the message the component shows

scannerVars == <<lastScannedData, scanned, error>>

\* what each part of the program leaves alone
notLedger  == <<oracleVars, pollerVars, scannerVars>>
notOracle  == <<vars, pollerVars, scannerVars>>
notPoller  == <<vars, oracleVars, scannerVars>>
notScanner == <<vars, oracleVars, pollerVars>>

NoHash   == ""     \* aptos_transaction_hash IS NULL
NoPayout == 0      \* upi_payout_id IS NULL

\* ------------------------------------------------------------ AptosService
\* What aptos.getTransactionByHash produced: it threw, it returned nothing,
\* or it returned a transaction with a success flag and a payload.
TxOutcomes ==
  { [kind |-> "error", success |-> FALSE, payload |-> "none"],
    [kind |-> "null",  success |-> FALSE, payload |-> "none"] }
  \cup { [kind |-> "tx", success |-> FALSE, payload |-> "escrow"] }
  \cup [kind : {"tx"}, success : {TRUE}, payload : {"none", "other", "escrow"}]

\* transaction.payload && JSON.stringify(transaction.payload).includes(escrow)
isTransactionToEscrow(transaction) ==
  transaction.payload # "none" /\ transaction.payload = "escrow"

\* verifyTransaction without the escrow test
verifyTransaction_noEscrow(tx) ==
  IF tx.kind = "error" THEN FALSE
  ELSE IF tx.kind = "null" THEN FALSE
  ELSE tx.success

verifyTransaction(tx) ==
  IF tx.kind = "error" THEN FALSE
  ELSE IF tx.kind = "null" THEN FALSE
  ELSE tx.success /\ isTransactionToEscrow(tx)

\* -------------------------------------------------------------- UpiService
Hmac(key, payload) == <<"hmac-sha256", key, payload>>

verifyWebhookSignature(payload, signature) ==
  signature = Hmac(secretKey, payload)

\* initiatePayout whose catch lets the error escape
initiatePayout_rethrow(payoutId, freshId, outcome) ==
  IF outcome = "error"
  THEN [payoutId |-> freshId, status |-> "FAILED", raised |-> TRUE]
  ELSE [payoutId |-> payoutId,
        status   |-> IF outcome = "" THEN "PENDING" ELSE outcome,
        raised   |-> FALSE]

\* What UpiService.initiatePayout resolves to once the call it made with
\* payoutId has settled with `outcome`; freshId is the uuidv4() of its catch.
initiatePayout(payoutId, freshId, outcome) ==
  IF outcome = "error"
  THEN [payoutId |-> freshId, status |-> "FAILED", raised |-> FALSE]
  ELSE [payoutId |-> payoutId,
        status   |-> IF outcome = "" THEN "PENDING" ELSE outcome,
        raised   |-> FALSE]

\* ----------------------------------------------------------- PaymentService
RowExists(id) == id \in 1..Len(payments)

createPayment(data) ==
  Append(payments,
         [ status               |-> data.status,
           aptosTransactionHash |-> NoHash,
           upiPayoutId          |-> NoPayout,
           amountINR            |-> data.amountINR,
           stablecoinAmount     |-> data.stablecoinAmount,
           exchangeRate         |-> data.exchangeRate ])

\* updatePaymentStatus with the status column left out of the UPDATE
updatePaymentStatus_keepStatus(id, status, aptosTransactionHash) ==
  IF aptosTransactionHash # NoHash
  THEN [payments EXCEPT ![id].aptosTransactionHash = aptosTransactionHash]
  ELSE payments

\* UPDATE payments SET status = $1 [, aptos_transaction_hash = $3] WHERE id
updatePaymentStatus(id, status, aptosTransactionHash) ==
  IF aptosTransactionHash # NoHash
  THEN [payments EXCEPT ![id].status = status,
                        ![id].aptosTransactionHash = aptosTransactionHash]
  ELSE [payments EXCEPT ![id].status = status]

\* updatePaymentPayout with an UPDATE that also clears exchange_rate
updatePaymentPayout_clearsRate(id, upiPayoutId) ==
  [payments EXCEPT ![id].upiPayoutId = upiPayoutId, ![id].exchangeRate = 0]

\* UPDATE payments SET upi_payout_id = $1 WHERE id = $3
updatePaymentPayout(id, upiPayoutId) ==
  [payments EXCEPT ![id].upiPayoutId = upiPayoutId]

\* rows whose status is 'confirmed' in table t, added to the history
NoteConfirmed(t) ==
  everConfirmed \cup {i \in 1..Len(t) : t[i].status = "confirmed"}

\* ----------------------------------------------------------------- helpers
\* a handler suspended at an await, with the locals it resumes with
Req(kind, id, hash, tx, pc, payoutId) ==
  [kind |-> kind, transactionId |-> id, hash |-> hash, tx |-> tx,
   pc |-> pc, payoutId |-> payoutId]

NoTx == [kind |-> "null", success |-> FALSE, payload |-> "none"]

\* a handled request and its response: ok is res.json({success: true, ...}),
\* ~ok is next(error)
Op(op, ok, payoutId, payoutStatus) ==
  [op |-> op, ok |-> ok, payoutId |-> payoutId, payoutStatus |-> payoutStatus]

Suspended == BagToSet(inflight)

\* a request arrives
Receive == requests < MaxRequests /\ requests' = requests + 1

\* transactionId values of a request: none (0), the id of a row, an unknown id
TransactionIds == 0..(Len(payments) + 1)

LedgerInit ==
  /\ payments = << >>
  /\ inflight = EmptyBag
  /\ provider = {}
  /\ uuidCount = 0
  /\ lastOp = Op("none", TRUE, NoPayout, "")
  /\ everConfirmed = {}
  /\ requests = 0

\* ------------------------------------------- PaymentController.initiatePayment
initiatePayment(present, amountINR, exchangeRate) ==
  /\ Receive
  /\ IF ~present \/ amountINR = 0
     THEN /\ lastOp' = Op("initiatePayment", FALSE, NoPayout, "")
          /\ UNCHANGED payments
     ELSE /\ payments' = createPayment(
                 [ amountINR |-> amountINR,
                   stablecoinAmount |-> [num |-> amountINR, den |-> exchangeRate],
                   exchangeRate |-> exchangeRate,
                   status |-> "pending" ])
          /\ lastOp' = Op("initiatePayment", TRUE, NoPayout, "")
  /\ UNCHANGED <<inflight, provider, uuidCount, everConfirmed>>
  /\ UNCHANGED notLedger

\* -------------------------------------------- PaymentController.confirmPayment
\* what the lookup can report to a request: nothing is looked up when a field
\* is missing
LookupOutcomes(transactionId, aptosTransactionHash) ==
  IF transactionId = 0 \/ aptosTransactionHash = NoHash THEN {NoTx} ELSE TxOutcomes

\* up to the await of updatePaymentStatus
confirmPayment_verify(transactionId, aptosTransactionHash, tx) ==
  LET isValid == verifyTransaction(tx) IN
  /\ Receive
  /\ IF transactionId = 0 \/ aptosTransactionHash = NoHash \/ ~isValid
     THEN /\ lastOp' = Op("confirmPayment", FALSE, NoPayout, "")
          /\ UNCHANGED <<payments, inflight, provider, uuidCount, everConfirmed>>
     ELSE /\ inflight' = inflight (+) SetToBag({Req("confirm", transactionId, aptosTransactionHash, tx, "update", NoPayout)})
          /\ UNCHANGED <<payments, provider, uuidCount, lastOp, everConfirmed>>
  /\ UNCHANGED notLedger

\* the UPDATE executes and the handler responds
confirmPayment_update(r) ==
  /\ r.kind = "confirm" /\ r.pc = "update"
  /\ inflight' = inflight (-) SetToBag({r})
  /\ IF RowExists(r.transactionId)
     THEN /\ payments' = updatePaymentStatus(r.transactionId, "confirmed", r.hash)
          /\ lastOp' = Op("confirmPayment", TRUE, NoPayout, "")
     ELSE /\ UNCHANGED payments
          /\ lastOp' = Op("confirmPayment", FALSE, NoPayout, "")
  /\ everConfirmed' = NoteConfirmed(payments')
  /\ UNCHANGED <<provider, uuidCount, requests>>
  /\ UNCHANGED notLedger

\* ---------------------------------------------- UpiController.initiateUpiPayout
\* up to the continuation of `await getPaymentById`: the SELECT has executed
initiateUpiPayout_read(transactionId, present) ==
  /\ Receive
  /\ IF transactionId = 0 \/ ~present
        \/ ~RowExists(transactionId)
        \/ payments[transactionId].status # "confirmed"
     THEN /\ lastOp' = Op("initiateUpiPayout", FALSE, NoPayout, "")
          /\ UNCHANGED <<payments, inflight, provider, uuidCount, everConfirmed>>
     ELSE /\ inflight' = inflight (+) SetToBag({Req("payout", transactionId, NoHash, NoTx, "call", NoPayout)})
          /\ UNCHANGED <<payments, provider, uuidCount, lastOp, everConfirmed>>
  /\ UNCHANGED notLedger

\* UpiService.initiatePayout up to `await axios.post`: the request is sent,
\* unless the mock is on (NODE_ENV === 'development' || USE_UPI_MOCK === 'true')
initiateUpiPayout_call(r, useMock) ==
  /\ r.kind = "payout" /\ r.pc = "call"
  /\ LET payoutId == uuidCount + 1 IN
     /\ uuidCount' = payoutId
     /\ provider' = IF useMock THEN provider
                    ELSE provider \cup {[payout_id |-> payoutId, transactionId |-> r.transactionId]}
     /\ inflight' = (inflight (-) SetToBag({r}))
                      (+) SetToBag({[r EXCEPT !.pc = "persist", !.payoutId = payoutId]})
  /\ UNCHANGED <<payments, lastOp, everConfirmed, requests>>
  /\ UNCHANGED notLedger

\* the call went to mockUpiPayout: the provider holds no request for it
WasMocked(r) == \A q \in provider : q.payout_id # r.payoutId

\* the provider call (or the mock) settles with `outcome`, initiatePayout
\* returns, and updatePaymentPayout executes
initiateUpiPayout_persist(r, outcome) ==
  /\ r.kind = "payout" /\ r.pc = "persist"
  /\ WasMocked(r) => outcome \in MockOutcomes
  /\ LET payout == initiatePayout(r.payoutId, uuidCount + 1, outcome) IN
     /\ uuidCount' = IF outcome = "error" THEN uuidCount + 1 ELSE uuidCount
     /\ IF payout.raised
        THEN /\ UNCHANGED payments
             /\ lastOp' = Op("initiateUpiPayout", FALSE, NoPayout, "")
        ELSE /\ payments' = updatePaymentPayout(r.transactionId, payout.payoutId)
             /\ lastOp' = Op("initiateUpiPayout", TRUE, payout.payoutId, payout.status)
  /\ inflight' = inflight (-) SetToBag({r})
  /\ UNCHANGED <<provider, everConfirmed, requests>>
  /\ UNCHANGED notLedger

\* ----------------------------------------------- UpiController.handleUpiWebhook
WebhookBody(payoutId, status, transactionId) ==
  [payoutId |-> payoutId, status |-> status, transactionId |-> transactionId]

handleUpiWebhook(body, signature) ==
  LET paymentStatus == IF body.status = "SUCCESS" THEN "completed"
                       ELSE IF body.status = "FAILED" THEN "failed"
                       ELSE "pending"
  IN /\ Receive
     /\ IF RowExists(body.transactionId)
        THEN /\ payments' = updatePaymentStatus(body.transactionId, paymentStatus, NoHash)
             /\ lastOp' = Op("handleUpiWebhook", TRUE, NoPayout, "")
        ELSE /\ UNCHANGED payments
             /\ lastOp' = Op("handleUpiWebhook", FALSE, NoPayout, "")
     /\ UNCHANGED <<inflight, provider, uuidCount, everConfirmed>>
     /\ UNCHANGED notLedger

\* signatures a request can carry for a body
Signatures(body) == {Hmac(secretKey, body), Hmac(attackerKey, body)}

WebhookBodies ==
  {WebhookBody(pid, st, id) :
     pid \in WebhookPayoutIds, st \in WebhookStatuses, id \in TransactionIds}

Next ==
  \/ \E present \in BOOLEAN, a \in AmountsINR, x \in ExchangeRates :
        initiatePayment(present, a, x)
  \/ \E id \in TransactionIds, h \in Hashes \cup {NoHash} :
        \E tx \in LookupOutcomes(id, h) : confirmPayment_verify(id, h, tx)
  \/ \E r \in Suspended : confirmPayment_update(r)
  \/ \E id \in TransactionIds, present \in BOOLEAN : initiateUpiPayout_read(id, present)
  \/ \E r \in Suspended, useMock \in BOOLEAN : initiateUpiPayout_call(r, useMock)
  \/ \E r \in Suspended, o \in ProviderOutcomes : initiateUpiPayout_persist(r, o)
  \/ \E body \in WebhookBodies : \E sig \in Signatures(body) :
        handleUpiWebhook(body, sig)

\* ======================================================================
\* OracleService (exchange rates with a cache and fallbacks)
\*
\* getExchangeRate is an async method: the cache is read when the call starts,
\* the call then waits for the primary source and, when that fails, for the
\* secondary source, and the cache is written when the call resumes.  Other
\* calls and the clock move while a call waits.
\* ======================================================================
MaxCalls == 3           \* calls of getExchangeRate in one behaviour
MaxNow   == 120000      \* the clock stops here (milliseconds)

cacheTimeout == 60000   \* OracleService.cacheTimeout
HardcodedUSDCToINR == 84   \* the rate returned when every source has failed

\* a rate is the quotient num / den; 0.012 is 12 / 1000
Rate(num, den) == [num |-> num, den |-> den]
HardcodedOther == Rate(12, 1000)

\* currency pairs asked for: the two supported ones and an unsupported one
Pairs == {<<"USDC", "INR">>, <<"INR", "USDC">>, <<"USDC", "EUR">>}

\* what a rate source answers: the request fails (network error, timeout,
\* error status), or it answers with a body whose INR field is inr (0: the
\* field is missing or zero)
SourceReplies ==
  {[status |-> "error", inr |-> 0]} \cup [status : {"ok"}, inr : {0, 83, 85}]

\* milliseconds by which the clock moves between two steps of the service
TimeSteps == {20000, 40000}

\* cache.get(key) of a key that was never set
NoEntry == [present |-> FALSE, rate |-> Rate(0, 1), timestamp |-> 0]
Entry(rate, timestamp) == [present |-> TRUE, rate |-> rate, timestamp |-> timestamp]

\* the freshness test without the age of the entry
IsFresh_ignoresAge(cached, t) == cached.present

\* cached && Date.now() - cached.timestamp.getTime() < this.cacheTimeout
IsFresh(cached, t) == cached.present /\ t - cached.timestamp < cacheTimeout

\* const rate = response.data[...]; if (!rate) throw
IsUsable(reply) == reply.status = "ok" /\ reply.inr # 0

\* getFallbackUSDCToINRRate, given the reply of the secondary source
getFallbackUSDCToINRRate(reply) ==
  IF IsUsable(reply) THEN [raised |-> FALSE, inr |-> reply.inr, via |-> "secondary"]
  ELSE [raised |-> FALSE, inr |-> HardcodedUSDCToINR, via |-> "hardcoded"]

IsSupported(pair) == pair \in {<<"USDC", "INR">>, <<"INR", "USDC">>}

\* rate = usdcToInr, or rate = 1 / usdcToInr
RateOf(pair, usdcToInr) ==
  IF pair = <<"USDC", "INR">> THEN Rate(usdcToInr, 1) ELSE Rate(1, usdcToInr)

\* a returned call: the value it resolved to (or that it rejected) and the
\* branch that produced the value
Returned(pair, raised, rate, via) ==
  [pair |-> pair, raised |-> raised, rate |-> rate, via |-> via]

\* the catch block of getExchangeRate without its two fallbacks
getExchangeRate_catch_rethrow(pair, cached) ==
  Returned(pair, TRUE, Rate(0, 1), "none")

\* the catch block of getExchangeRate: the entry read when the call started,
\* expired or not, else a constant
getExchangeRate_catch(pair, cached) ==
  IF cached.present THEN Returned(pair, FALSE, cached.rate, "stale")
  ELSE IF pair = <<"USDC", "INR">>
       THEN Returned(pair, FALSE, Rate(HardcodedUSDCToINR, 1), "hardcoded")
       ELSE Returned(pair, FALSE, HardcodedOther, "hardcoded")

\* a call waiting for a source: its pair, the entry it read, the source
Call(pair, cached, pc) == [pair |-> pair, cached |-> cached, pc |-> pc]

Fetching == BagToSet(fetching)

OracleInit ==
  /\ cache = [p \in Pairs |-> NoEntry]
  /\ now = 0
  /\ fetching = EmptyBag
  /\ lastCall = Returned(<<"USDC", "INR">>, FALSE, Rate(0, 1), "none")
  /\ rateCalls = 0

\* getExchangeRate up to its first await (or to its return)
getExchangeRate_start(pair) ==
  LET cached == cache[pair] IN
  /\ rateCalls < MaxCalls
  /\ rateCalls' = rateCalls + 1
  /\ IF IsFresh(cached, now)
     THEN /\ lastCall' = Returned(pair, FALSE, cached.rate, "cache")
          /\ UNCHANGED <<cache, fetching>>
     ELSE IF IsSupported(pair)
     THEN /\ fetching' = fetching (+) SetToBag({Call(pair, cached, "primary")})
          /\ UNCHANGED <<cache, lastCall>>
     ELSE /\ lastCall' = getExchangeRate_catch(pair, cached)
          /\ UNCHANGED <<cache, fetching>>
  /\ UNCHANGED <<now, notOracle>>

\* the rest of the try block: cache.set(key, {rate, timestamp: new Date()})
Resolve(c, usdcToInr, via) ==
  LET rate == RateOf(c.pair, usdcToInr) IN
  /\ cache' = [cache EXCEPT ![c.pair] = Entry(rate, now)]
  /\ lastCall' = Returned(c.pair, FALSE, rate, via)
  /\ fetching' = fetching (-) SetToBag({c})

\* getUSDCToINRRate: the primary source answers
getUSDCToINRRate(c, reply) ==
  /\ c.pc = "primary"
  /\ IF IsUsable(reply)
     THEN Resolve(c, reply.inr, "primary")
     ELSE /\ fetching' = (fetching (-) SetToBag({c}))
                           (+) SetToBag({[c EXCEPT !.pc = "secondary"]})
          /\ UNCHANGED <<cache, lastCall>>
  /\ UNCHANGED <<now, rateCalls, notOracle>>

\* getFallbackUSDCToINRRate: the secondary source answers, and getExchangeRate
\* resumes
getExchangeRate_resume(c, reply) ==
  /\ c.pc = "secondary"
  /\ LET r == getFallbackUSDCToINRRate(reply) IN
     IF r.raised
     THEN /\ lastCall' = getExchangeRate_catch(c.pair, c.cached)
          /\ fetching' = fetching (-) SetToBag({c})
          /\ UNCHANGED cache
     ELSE Resolve(c, r.inr, r.via)
  /\ UNCHANGED <<now, rateCalls, notOracle>>

clearCache ==
  /\ cache # [p \in Pairs |-> NoEntry]
  /\ cache' = [p \in Pairs |-> NoEntry]
  /\ UNCHANGED <<now, fetching, lastCall, rateCalls, notOracle>>

\* time passes
Tick(d) ==
  /\ now + d <= MaxNow
  /\ now' = now + d
  /\ UNCHANGED <<cache, fetching, lastCall, rateCalls, notOracle>>

OracleNext ==
  \/ \E pair \in Pairs : getExchangeRate_start(pair)
  \/ \E c \in Fetching, reply \in SourceReplies : getUSDCToINRRate(c, reply)
  \/ \E c \in Fetching, reply \in SourceReplies : getExchangeRate_resume(c, reply)
  \/ clearCache
  \/ \E d \in TimeSteps : Tick(d)

\* ======================================================================
\* AptosService.listenToPaymentEvents (the 5 second poller)
\*
\* setInterval calls the async callback every 5000 ms whether or not an
\* earlier call of it has finished; a call waits at getAccountTransactions
\* for as long as the node takes to answer.
\* ======================================================================
MaxTicks == 6           \* times the interval fires in one behaviour

\* transactions getAccountTransactions can list
PolledTxs ==
  [kind : {"tx"}, success : BOOLEAN, transfer : BOOLEAN,
   payload : {"none", "other", "escrow"}]

\* what getAccountTransactions answers: it throws, or it lists transactions
PollReplies ==
  {[ok |-> FALSE, transactions |-> << >>]}
  \cup {[ok |-> TRUE, transactions |-> txs] :
          txs \in {<< >>} \cup {<<t>> : t \in PolledTxs}
                   \cup {<<t, t>> : t \in PolledTxs}}

\* transaction.success && payload?.function?.includes('transfer')
\*   && isTransactionToEscrow(transaction)
isPaymentTransaction(transaction) ==
  transaction.success /\ transaction.transfer /\ isTransactionToEscrow(transaction)

PollerInit ==
  /\ listening = FALSE
  /\ polling = 0
  /\ ticks = 0
  /\ callbacks = 0

\* listenToPaymentEvents: setInterval(async () => {...}, 5000)
listenToPaymentEvents ==
  /\ ~listening
  /\ listening' = TRUE
  /\ UNCHANGED <<polling, ticks, callbacks, notPoller>>

\* the interval fires: the callback runs up to `await getAccountTransactions`
poll_start ==
  /\ listening
  /\ ticks < MaxTicks
  /\ ticks' = ticks + 1
  /\ polling' = polling + 1
  /\ UNCHANGED <<listening, callbacks, notPoller>>

\* getAccountTransactions settles: callback(tx) for every payment transaction
\* listed, or the error is logged
poll_settle(reply) ==
  /\ polling > 0
  /\ polling' = polling - 1
  /\ callbacks' = callbacks
        + Cardinality({i \in DOMAIN reply.transactions :
                         isPaymentTransaction(reply.transactions[i])})
  /\ UNCHANGED <<listening, ticks, notPoller>>

PollerNext ==
  \/ listenToPaymentEvents
  \/ poll_start
  \/ \E reply \in PollReplies : poll_settle(reply)

\* ======================================================================
\* UPIQRScanner (the parser of scanned QR payloads)
\*
\* A JavaScript string is a sequence of one-character strings, so that
\* startsWith, includes, split, the URL parser, the regular expressions and
\* JSON.parse are computed on the characters.  A JavaScript value is a record
\* [t, s, kids]: its type, its characters (string, number, boolean) and its
\* elements or members (array, object).
\* ======================================================================
MaxParams  == 3         \* query parameters of a generated URL payload
MaxLines   == 3         \* lines of a generated text payload
MaxMembers == 2         \* members of a generated JSON payload

\* ------------------------------------------------------------ characters
LowerCase == {"a", "b", "c", "d", "e", "f", "g", "h", "i", "j", "k", "l", "m",
              "n", "o", "p", "q", "r", "s", "t", "u", "v", "w", "x", "y", "z"}
UpperCase == {"A", "B", "C", "D", "E", "F", "G", "H", "I", "J", "K", "L", "M",
              "N", "O", "P", "Q", "R", "S", "T", "U", "V", "W", "X", "Y", "Z"}
Digits    == {"0", "1", "2", "3", "4", "5", "6", "7", "8", "9"}
WhiteSpace == {" ", "\t", "\n", "\r"}

ToLower ==
  [c \in UpperCase |->
     CASE c = "A" -> "a" [] c = "B" -> "b" [] c = "C" -> "c" [] c = "D" -> "d"
       [] c = "E" -> "e" [] c = "F" -> "f" [] c = "G" -> "g" [] c = "H" -> "h"
       [] c = "I" -> "i" [] c = "J" -> "j" [] c = "K" -> "k" [] c = "L" -> "l"
       [] c = "M" -> "m" [] c = "N" -> "n" [] c = "O" -> "o" [] c = "P" -> "p"
       [] c = "Q" -> "q" [] c = "R" -> "r" [] c = "S" -> "s" [] c = "T" -> "t"
       [] c = "U" -> "u" [] c = "V" -> "v" [] c = "W" -> "w" [] c = "X" -> "x"
       [] c = "Y" -> "y" [] c = "Z" -> "z"]

\* ------------------------------------------------- String.prototype methods
startsWith(s, p) == Len(p) <= Len(s) /\ SubSeq(s, 1, Len(p)) = p

\* position of the first occurrence of p in s, 0 when there is none
indexOf(s, p) ==
  LET at == {i \in 1..(Len(s) - Len(p) + 1) : SubSeq(s, i, i + Len(p) - 1) = p}
  IN IF at = {} THEN 0 ELSE CHOOSE i \in at : \A j \in at : i <= j

includes(s, p) == indexOf(s, p) # 0

toLowerCase(s) ==
  [i \in 1..Len(s) |-> IF s[i] \in UpperCase THEN ToLower[s[i]] ELSE s[i]]

\* position of the first character of s at or after `from` that is in chars,
\* Len(s) + 1 when there is none
firstOf(s, chars, from) ==
  LET at == {i \in from..Len(s) : s[i] \in chars}
  IN IF at = {} THEN Len(s) + 1 ELSE CHOOSE i \in at : \A j \in at : i <= j

trim(s) ==
  LET at == {i \in 1..Len(s) : s[i] \notin WhiteSpace}
  IN IF at = {} THEN << >>
     ELSE SubSeq(s, CHOOSE i \in at : \A j \in at : i <= j,
                    CHOOSE i \in at : \A j \in at : i >= j)

\* s.replace(p, r): the first occurrence
replace(s, p, r) ==
  LET i == indexOf(s, p)
  IN IF i = 0 THEN s
     ELSE SubSeq(s, 1, i - 1) \o r \o SubSeq(s, i + Len(p), Len(s))

RECURSIVE split(_, _)
split(s, sep) ==
  LET i == firstOf(s, {sep}, 1)
  IN IF i > Len(s) THEN <<s>>
     ELSE <<SubSeq(s, 1, i - 1)>> \o split(SubSeq(s, i + 1, Len(s)), sep)

\* s with the characters in chars removed
RECURSIVE without(_, _)
without(s, chars) ==
  IF s = << >> THEN << >>
  ELSE IF Head(s) \in chars THEN without(Tail(s), chars)
  ELSE <<Head(s)>> \o without(Tail(s), chars)

\* end of the run of digits of s that starts at i (i - 1 when s[i] is no digit)
digitsEnd(s, i) == firstOf(s, {s[j] : j \in i..Len(s)} \ Digits, i) - 1

\* line.match(/\d+(\.\d+)?/): the match, or the empty string for no match
matchDecimal(s) ==
  LET i == firstOf(s, Digits, 1)
      j == digitsEnd(s, i)
      k == IF j + 2 <= Len(s) /\ s[j + 1] = "." /\ s[j + 2] \in Digits
           THEN digitsEnd(s, j + 2) ELSE j
  IN IF i > Len(s) THEN << >> ELSE SubSeq(s, i, k)

\* line.match(/\d+/)
matchDigits(s) == \E i \in 1..Len(s) : s[i] \in Digits

\* ----------------------------------------------------- JavaScript values
JV(t, s, kids) == [t |-> t, s |-> s, kids |-> kids]
Str(s)    == JV("string", s, << >>)
Num(s)    == JV("number", s, << >>)
Bool(s)   == JV("boolean", s, << >>)
Null      == JV("null", << >>, << >>)
Undefined == JV("undefined", << >>, << >>)
Arr(kids) == JV("array", << >>, kids)
Obj(kids) == JV("object", << >>, kids)
Member(key, value) == [key |-> key, value |-> value]

\* ToBoolean
Truthy(v) ==
  CASE v.t = "string"  -> v.s # << >>
    [] v.t = "number"  -> v.s # <<"0">>
    [] v.t = "boolean" -> v.s = <<"t", "r", "u", "e">>
    [] v.t \in {"null", "undefined"} -> FALSE
    [] OTHER -> TRUE

\* a || b
Or(a, b) == IF Truthy(a) THEN a ELSE b

\* v[key] for a value that is neither null nor undefined
GetProp(v, key) ==
  IF v.t = "object" /\ \E i \in DOMAIN v.kids : v.kids[i].key = key
  THEN v.kids[CHOOSE i \in DOMAIN v.kids : v.kids[i].key = key].value
  ELSE Undefined

RECURSIVE join(_, _)
join(parts, sep) ==
  IF parts = << >> THEN << >>
  ELSE IF Len(parts) = 1 THEN parts[1]
  ELSE parts[1] \o sep \o join(Tail(parts), sep)

\* v.toString(): the string, and whether the call throws (a member named
\* toString that is not a function)
RECURSIVE toString(_)
toString(v) ==
  CASE v.t \in {"string", "number", "boolean"} -> [threw |-> FALSE, s |-> v.s]
    [] v.t = "array" ->
         [threw |-> \E i \in DOMAIN v.kids : toString(v.kids[i]).threw,
          s |-> join([i \in DOMAIN v.kids |->
                        IF v.kids[i].t \in {"null", "undefined"} THEN << >>
                        ELSE toString(v.kids[i]).s], <<",">>)]
    [] v.t = "object" ->
         [threw |-> GetProp(v, <<"t", "o", "S", "t", "r", "i", "n", "g">>).t # "undefined", s |-> <<"[", "o", "b", "j", "e", "c", "t", " ", "O", "b", "j", "e", "c", "t", "]">>]
    [] OTHER -> [threw |-> TRUE, s |-> << >>]

\* ----------------------------------------------------------- JSON.parse
\* A parse step answers [ok, v, next]: whether a value was read at position
\* i, the value, and the position after it.  Strings have no escapes and
\* numbers no sign and no exponent.
Step(ok, v, next) == [ok |-> ok, v |-> v, next |-> next]
Fail == Step(FALSE, Undefined, 0)

skipWs(s, i) == firstOf(s, {s[j] : j \in i..Len(s)} \ WhiteSpace, i)

\* "..." at position i
jsonString(s, i) ==
  LET j == firstOf(s, {"\""}, i + 1)
  IN IF i > Len(s) \/ s[i] # "\"" \/ j > Len(s) THEN Fail
     ELSE IF \E k \in (i + 1)..(j - 1) : s[k] \in {"\n", "\t", "\r", "\\"} THEN Fail
     ELSE Step(TRUE, Str(SubSeq(s, i + 1, j - 1)), j + 1)

\* the characters of Number.prototype.toString for the digits int.frac
numberText(int, frac) ==
  LET keep == {k \in 1..Len(frac) : frac[k] # "0"}
      last == IF keep = {} THEN 0 ELSE CHOOSE k \in keep : \A m \in keep : k >= m
  IN IF last = 0 THEN int ELSE int \o <<".">> \o SubSeq(frac, 1, last)

\* digits [. digits] at position i; a leading 0 stands alone
jsonNumber(s, i) ==
  LET j == digitsEnd(s, i)
      hasFrac == j + 1 <= Len(s) /\ s[j + 1] = "."
      k == IF hasFrac THEN digitsEnd(s, j + 2) ELSE j
  IN IF j < i \/ (s[i] = "0" /\ j > i) \/ (hasFrac /\ k < j + 2) THEN Fail
     ELSE Step(TRUE, Num(numberText(SubSeq(s, i, j), SubSeq(s, j + 2, k))), k + 1)

jsonLiteral(s, i) ==
  IF startsWith(SubSeq(s, i, Len(s)), <<"t", "r", "u", "e">>) THEN Step(TRUE, Bool(<<"t", "r", "u", "e">>), i + 4)
  ELSE IF startsWith(SubSeq(s, i, Len(s)), <<"f", "a", "l", "s", "e">>) THEN Step(TRUE, Bool(<<"f", "a", "l", "s", "e">>), i + 5)
  ELSE IF startsWith(SubSeq(s, i, Len(s)), <<"n", "u", "l", "l">>) THEN Step(TRUE, Null, i + 4)
  ELSE Fail

\* obj[key] = value: a repeated key keeps its place and takes the new value
setMember(kids, key, value) ==
  IF \E i \in DOMAIN kids : kids[i].key = key
  THEN [i \in DOMAIN kids |->
          IF kids[i].key = key THEN Member(key, value) ELSE kids[i]]
  ELSE Append(kids, Member(key, value))

RECURSIVE jsonValue(_, _)
RECURSIVE jsonMembers(_, _, _)
RECURSIVE jsonElements(_, _, _)

\* after a member: `}` ends the object, `,` brings the next member
memberEnd(s, after, kids) ==
  IF after > Len(s) THEN Fail
  ELSE IF s[after] = "}" THEN Step(TRUE, Obj(kids), after + 1)
  ELSE IF s[after] = "," THEN jsonMembers(s, after + 1, kids)
  ELSE Fail

\* the value val of the member named key has been read
memberValue(s, key, val, kids) ==
  IF ~val.ok THEN Fail
  ELSE memberEnd(s, skipWs(s, val.next), setMember(kids, key, val.v))

\* the name key of a member has been read; colon is where `:` must be
memberColon(s, key, colon, kids) ==
  IF colon > Len(s) \/ s[colon] # ":" THEN Fail
  ELSE memberValue(s, key, jsonValue(s, colon + 1), kids)

memberName(s, key, kids) ==
  IF ~key.ok THEN Fail ELSE memberColon(s, key.v.s, skipWs(s, key.next), kids)

\* the members of an object from position i (after `{` or `,`)
jsonMembers(s, i, kids) == memberName(s, jsonString(s, skipWs(s, i)), kids)

\* after an element: `]` ends the array, `,` brings the next element
elementEnd(s, after, kids) ==
  IF after > Len(s) THEN Fail
  ELSE IF s[after] = "]" THEN Step(TRUE, Arr(kids), after + 1)
  ELSE IF s[after] = "," THEN jsonElements(s, after + 1, kids)
  ELSE Fail

elementValue(s, val, kids) ==
  IF ~val.ok THEN Fail ELSE elementEnd(s, skipWs(s, val.next), Append(kids, val.v))

\* the elements of an array from position i (after `[` or `,`)
jsonElements(s, i, kids) == elementValue(s, jsonValue(s, i), kids)

jsonValue(s, i) ==
  LET b == skipWs(s, i)
      e == skipWs(s, b + 1)
  IN IF b > Len(s) THEN Fail
     ELSE IF s[b] = "\"" THEN jsonString(s, b)
     ELSE IF s[b] \in Digits THEN jsonNumber(s, b)
     ELSE IF s[b] = "{"
          THEN IF e <= Len(s) /\ s[e] = "}" THEN Step(TRUE, Obj(<< >>), e + 1)
               ELSE jsonMembers(s, b + 1, << >>)
     ELSE IF s[b] = "["
          THEN IF e <= Len(s) /\ s[e] = "]" THEN Step(TRUE, Arr(<< >>), e + 1)
               ELSE jsonElements(s, b + 1, << >>)
     ELSE jsonLiteral(s, b)

\* nothing but white space may follow the value
wholeText(text, r) ==
  IF r.ok /\ skipWs(text, r.next) > Len(text) THEN r ELSE Fail

\* JSON.parse(text): ~ok is the SyntaxError
JSONparse(text) == wholeText(text, jsonValue(text, 1))

RECURSIVE JSONstringify(_)
JSONstringify(v) ==
  CASE v.t = "string" -> <<"\"">> \o v.s \o <<"\"">>
    [] v.t \in {"number", "boolean"} -> v.s
    [] v.t = "array" ->
         <<"[">> \o join([i \in DOMAIN v.kids |-> JSONstringify(v.kids[i])], <<",">>) \o <<"]">>
    [] v.t = "object" ->
         <<"{">> \o join([i \in DOMAIN v.kids |->
                        <<"\"">> \o v.kids[i].key \o <<"\"", ":">> \o JSONstringify(v.kids[i].value)],
                     <<",">>) \o <<"}">>
    [] OTHER -> <<"n", "u", "l", "l">>

\* ------------------------------------------------ new URL, searchParams
\* new URL(input) without a base, for inputs without % escapes and without
\* an IPv6 host.  ~ok is the TypeError.
SpecialSchemes == {<<"h", "t", "t", "p", "s">>, <<"h", "t", "t", "p">>, <<"f", "t", "p">>, <<"w", "s">>, <<"w", "s", "s">>}
ForbiddenHost  == {" ", "<", ">", "[", "]", "^", "|", "\\"}

\* the parameters of a query: name=value pairs separated by &, + is a space
searchParams(query) ==
  LET parts == SelectSeq(split(query, "&"), LAMBDA p : p # << >>)
      plus(s) == [i \in 1..Len(s) |-> IF s[i] = "+" THEN " " ELSE s[i]]
  IN [i \in DOMAIN parts |->
        LET eq == firstOf(parts[i], {"="}, 1)
        IN [name  |-> plus(SubSeq(parts[i], 1, eq - 1)),
            value |-> plus(SubSeq(parts[i], eq + 1, Len(parts[i])))]]

BadURL == [ok |-> FALSE, params |-> << >>]

\* the query of a URL whose text after the authority begins at `from` of tail
urlQuery(tail, from) ==
  LET hash == firstOf(tail, {"#"}, from)
      mark == firstOf(SubSeq(tail, 1, hash - 1), {"?"}, from)
  IN [ok |-> TRUE, params |-> searchParams(SubSeq(tail, mark + 1, hash - 1))]

\* host[:port] of an authority: the host has no forbidden character, the
\* port is digits, and a special scheme has a host
okHostPort(special, hostport) ==
  LET portAt == firstOf(hostport, {":"}, 1)
  IN /\ \A i \in 1..(portAt - 1) : hostport[i] \notin ForbiddenHost
     /\ \A i \in (portAt + 1)..Len(hostport) : hostport[i] \in Digits
     /\ special => portAt > 1

\* the authority without its credentials (what follows the last @)
hostPort(authority) ==
  LET ats == {i \in 1..Len(authority) : authority[i] = "@"}
  IN IF ats = {} THEN authority
     ELSE SubSeq(authority, 1 + CHOOSE i \in ats : \A j \in ats : i >= j,
                 Len(authority))

\* tail begins with the authority, which ends before position endAuth
urlAuthority(special, tail, endAuth) ==
  IF okHostPort(special, hostPort(SubSeq(tail, 1, endAuth - 1)))
  THEN urlQuery(tail, endAuth) ELSE BadURL

\* rest is what follows `scheme:`
urlAfterScheme(special, rest) ==
  IF special \/ startsWith(rest, <<"/", "/">>)
  THEN LET slashes == IF special
                      THEN firstOf(rest, {rest[j] : j \in 1..Len(rest)} \ {"/", "\\"}, 1) - 1
                      ELSE 2
       IN urlAuthority(special, SubSeq(rest, slashes + 1, Len(rest)),
                       firstOf(rest, {"/", "?", "#"}, slashes + 1) - slashes)
  ELSE urlQuery(rest, 1)

\* s is the input without its surrounding white space, tabs and newlines
urlScheme(s, colon) ==
  IF /\ 1 < colon /\ colon <= Len(s)
     /\ s[1] \in LowerCase \cup UpperCase
     /\ \A i \in 2..(colon - 1) :
           s[i] \in LowerCase \cup UpperCase \cup Digits \cup {"+", "-", "."}
  THEN urlAfterScheme(toLowerCase(SubSeq(s, 1, colon - 1)) \in SpecialSchemes,
                      SubSeq(s, colon + 1, Len(s)))
  ELSE BadURL

urlTrimmed(s) == urlScheme(s, firstOf(s, {":"}, 1))

newURL(input) == urlTrimmed(without(trim(input), {"\t", "\n", "\r"}))

\* params.get(name) that looks at the first parameter only
get_firstOnly(params, name) ==
  IF params # << >> /\ params[1].name = name THEN Str(params[1].value) ELSE Null

\* params.get(name): the first value of that name, else null
get(params, name) ==
  LET at == {i \in DOMAIN params : params[i].name = name}
  IN IF at = {} THEN Null
     ELSE Str(params[CHOOSE i \in at : \A j \in at : i <= j].value)

\* ------------------------------------------------------------- UPIData
UPIData(payeeAddress, payeeName, amount, transactionNote, merchantCode, transactionRef, rawData) ==
  [kind |-> "UPIData",
   payeeAddress |-> payeeAddress, payeeName |-> payeeName, amount |-> amount,
   transactionNote |-> transactionNote, merchantCode |-> merchantCode,
   transactionRef |-> transactionRef, rawData |-> rawData]

\* a result that carries no data: `return null`, or an exception thrown
NoData(kind) ==
  [kind |-> kind,
   payeeAddress |-> Undefined, payeeName |-> Undefined, amount |-> Undefined,
   transactionNote |-> Undefined, merchantCode |-> Undefined,
   transactionRef |-> Undefined, rawData |-> Undefined]
ReturnsNull == NoData("null")
Throws      == NoData("throws")

\* the branch `if (data.startsWith('upi://pay'))` of parseUPIQRCode, given
\* what new URL(data) made
inlineFields(data, url) ==
  LET payeeAddress == Or(get(url.params, <<"p", "a">>), Str(<< >>))
  IN IF ~url.ok THEN Throws
     ELSE IF ~Truthy(payeeAddress) THEN ReturnsNull
     ELSE UPIData(payeeAddress,
                  Or(get(url.params, <<"p", "n">>), Str(<< >>)),
                  Or(get(url.params, <<"a", "m">>), Str(<< >>)),
                  Or(get(url.params, <<"t", "n">>), Or(get(url.params, <<"t", "r">>), Str(<< >>))),
                  Or(get(url.params, <<"m", "c">>), Or(get(url.params, <<"m", "i", "d">>), Str(<< >>))),
                  Or(get(url.params, <<"t", "r">>), Or(get(url.params, <<"t", "i", "d">>), Str(<< >>))),
                  Str(data))

parseInline(data) == inlineFields(data, newURL(data))

\* parseUPIURL, given what new URL(data.replace('upi://', 'https://')) made
urlFields(data, url) ==
  LET payeeAddress == Or(get(url.params, <<"p", "a">>), Str(<< >>))
  IN IF ~url.ok THEN ReturnsNull
     ELSE IF ~Truthy(payeeAddress) THEN ReturnsNull
     ELSE UPIData(payeeAddress,
                  Or(get(url.params, <<"p", "n">>), Str(<<"U", "n", "k", "n", "o", "w", "n", " ", "M", "e", "r", "c", "h", "a", "n", "t">>)),
                  Or(get(url.params, <<"a", "m">>), Or(get(url.params, <<"a", "m", "o", "u", "n", "t">>), Str(<< >>))),
                  Or(get(url.params, <<"t", "n">>), Or(get(url.params, <<"n", "o", "t", "e">>), Str(<< >>))),
                  Or(get(url.params, <<"m", "c">>), Or(get(url.params, <<"m", "i", "d">>), Str(<< >>))),
                  Or(get(url.params, <<"t", "r">>), Or(get(url.params, <<"t", "i", "d">>), Str(<< >>))),
                  Str(data))

parseUPIURL(data) == urlFields(data, newURL(replace(data, <<"u", "p", "i", ":", "/", "/">>, <<"h", "t", "t", "p", "s", ":", "/", "/">>)))

\* the loop of parseAlternativeUPIFormat over the lines from the i-th on
RECURSIVE scanLines(_, _, _)
scanLines(lines, i, acc) ==
  IF i > Len(lines) THEN acc
  ELSE LET line == lines[i]
           low  == toLowerCase(line)
       IN scanLines(lines, i + 1,
            IF includes(line, <<"@">>)
            THEN [acc EXCEPT !.payeeAddress = line]
            ELSE IF includes(low, <<"a", "m", "o", "u", "n", "t">>) \/ includes(low, <<"r", "s">>)
            THEN IF matchDigits(line)
                 THEN [acc EXCEPT !.amount = matchDecimal(line)] ELSE acc
            ELSE IF Len(line) > 3 /\ ~includes(line, <<"@">>) /\ ~matchDigits(line)
            THEN [acc EXCEPT !.payeeName = line]
            ELSE acc)

parseAlternativeUPIFormat(data) ==
  LET parts == split(data, "\n")
      lines == [i \in DOMAIN parts |-> trim(parts[i])]
      found == scanLines(lines, 1,
                 [payeeAddress |-> << >>, payeeName |-> <<"U", "n", "k", "n", "o", "w", "n", " ", "M", "e", "r", "c", "h", "a", "n", "t">>,
                  amount |-> << >>])
  IN IF found.payeeAddress = << >> THEN ReturnsNull
     ELSE UPIData(Str(found.payeeAddress), Str(found.payeeName), Str(found.amount),
                  Str(<< >>), Str(<< >>), Str(<< >>), Str(data))

parseJSONUPIFormat(jsonData) ==
  LET payeeAddress == Or(GetProp(jsonData, <<"u", "p", "i">>), Or(GetProp(jsonData, <<"v", "p", "a">>),
                        Or(GetProp(jsonData, <<"p", "a", "y", "e", "e", "A", "d", "d", "r", "e", "s", "s">>), Str(<< >>))))
      payeeName == Or(GetProp(jsonData, <<"n", "a", "m", "e">>), Or(GetProp(jsonData, <<"m", "e", "r", "c", "h", "a", "n", "t", "N", "a", "m", "e">>),
                     Or(GetProp(jsonData, <<"p", "a", "y", "e", "e", "N", "a", "m", "e">>), Str(<<"U", "n", "k", "n", "o", "w", "n", " ", "M", "e", "r", "c", "h", "a", "n", "t">>))))
      amount == Or(GetProp(jsonData, <<"a", "m", "o", "u", "n", "t">>), Or(GetProp(jsonData, <<"a", "m">>), Str(<< >>)))
      transactionNote == Or(GetProp(jsonData, <<"n", "o", "t", "e">>), Or(GetProp(jsonData, <<"t", "n">>),
                           Or(GetProp(jsonData, <<"d", "e", "s", "c", "r", "i", "p", "t", "i", "o", "n">>), Str(<< >>))))
      merchantCode == Or(GetProp(jsonData, <<"m", "e", "r", "c", "h", "a", "n", "t", "C", "o", "d", "e">>), Or(GetProp(jsonData, <<"m", "c">>),
                        Or(GetProp(jsonData, <<"m", "i", "d">>), Str(<< >>))))
  IN IF ~Truthy(payeeAddress) THEN ReturnsNull
     ELSE IF toString(amount).threw THEN ReturnsNull
     ELSE UPIData(payeeAddress, payeeName, Str(toString(amount).s), transactionNote,
                  merchantCode, Str(<< >>), Str(JSONstringify(jsonData)))

\* the inner try of parseUPIQRCode, given what JSON.parse(data) made: the test
\* of the three keys; a SyntaxError, or the TypeError of reading a property of
\* null, is swallowed
jsonFields(json) ==
  IF ~json.ok \/ json.v.t = "null" THEN ReturnsNull
  ELSE IF Truthy(Or(GetProp(json.v, <<"u", "p", "i">>), Or(GetProp(json.v, <<"v", "p", "a">>),
                    GetProp(json.v, <<"p", "a", "y", "e", "e", "A", "d", "d", "r", "e", "s", "s">>))))
  THEN parseJSONUPIFormat(json.v)
  ELSE ReturnsNull

parseAsJSON(data) == jsonFields(JSONparse(data))

\* the body of the outer try of parseUPIQRCode
parseUPIQRCode_body(data) ==
  IF startsWith(data, <<"u", "p", "i", ":", "/", "/", "p", "a", "y">>) THEN parseInline(data)
  ELSE IF includes(toLowerCase(data), <<"u", "p", "i", ":", "/", "/", "p", "a", "y", "?">>) \/ includes(toLowerCase(data), <<"u", "p", "i", "q", "r">>)
  THEN parseUPIURL(data)
  ELSE IF includes(data, <<"@">>)
          /\ (includes(data, <<"p", "a", "y", "t", "m">>) \/ includes(data, <<"p", "h", "o", "n", "e", "p", "e">>)
              \/ includes(data, <<"g", "p", "a", "y">>) \/ includes(data, <<"y", "b", "l">>))
  THEN parseAlternativeUPIFormat(data)
  ELSE parseAsJSON(data)

\* the outer catch of parseUPIQRCode left out
catch_rethrow(result) == result

\* the outer catch of parseUPIQRCode: an exception becomes null
catch(result) == IF result.kind = "throws" THEN ReturnsNull ELSE result

parseUPIQRCode(data) == catch(parseUPIQRCode_body(data))

\* ------------------------------------------------------ scanned payloads
\* sequences of at most n distinct elements of S
RECURSIVE Arrangements(_, _)
Arrangements(S, n) ==
  IF n = 0 THEN {<< >>}
  ELSE {<< >>} \cup UNION {{<<x>> \o a : a \in Arrangements(S \ {x}, n - 1)} : x \in S}

\* query parameters of a URL payload
QueryParams ==
  { <<"p", "a", "=", "a", "@", "y", "b", "l">>, <<"p", "a", "=">>, <<"p", "n", "=", "T", "e", "a", " ", "S", "h", "o", "p">>, <<"a", "m", "=", "2", "0">>, <<"a", "m", "o", "u", "n", "t", "=", "3", "0">>, <<"t", "n", "=", "h", "i">>, <<"n", "o", "t", "e", "=", "y", "o">>,
    <<"t", "r", "=", "T", "1">>, <<"t", "i", "d", "=", "T", "2">>, <<"m", "c", "=", "M", "1">>, <<"m", "i", "d", "=", "M", "2">> }

\* the query parameters of a second merchant
MerchantParams == { <<"p", "a", "=", "s", "h", "o", "p", "@", "p", "a", "y", "t", "m">>, <<"p", "n", "=", "M", "a", "r", "t">>, <<"a", "m", "=", "5", ".", "5", "0">> }

\* what a URL payload starts with
UrlHeads == { <<"u", "p", "i", ":", "/", "/", "p", "a", "y">>, <<"U", "P", "I", ":", "/", "/", "p", "a", "y">> }

UrlPayloads ==
  UrlHeads
  \cup {head \o <<"?">> \o join(ps, <<"&">>) :
          head \in UrlHeads, ps \in Arrangements(QueryParams, MaxParams) \ {<< >>}}
  \cup {<<"u", "p", "i", ":", "/", "/", "p", "a", "y", "?">> \o join(ps, <<"&">>) :
          ps \in Arrangements(MerchantParams, MaxParams) \ {<< >>}}
  \cup { <<" ", "u", "p", "i", ":", "/", "/", "p", "a", "y", "?", "p", "a", "=", "a", "@", "y", "b", "l">>, <<"p", "a", "y", " ", "u", "p", "i", ":", "/", "/", "p", "a", "y", "?", "p", "a", "=", "a", "@", "y", "b", "l">>, <<"u", "p", "i", ":", "/", "/", "p", "a", "y", " ", "x", "?", "p", "a", "=", "a", "@", "y", "b", "l">>,
         <<"u", "p", "i", ":", "/", "/", "p", "a", "y", "m", "e", "n", "t", "?", "p", "a", "=", "a", "@", "y", "b", "l", "&", "p", "n", "=", "T", "e", "a", "+", "S", "h", "o", "p">>, <<"u", "p", "i", ":", "/", "/", "p", "a", "y", "?", "p", "a", "=", "a", "@", "y", "b", "l", "\n", "T", "e", "a", " ", "S", "h", "o", "p">>,
         <<"u", "p", "i", ":", "/", "/", "p", "a", "y", "?", "p", "n", "=", "T", "e", "a", " ", "S", "h", "o", "p", "#", "p", "a", "=", "a", "@", "y", "b", "l">>, <<"u", "p", "i", ":", "/", "/", "p", "a", "y", "@", "x", ":", "8", "0", "?", "p", "a", "=", "a", "@", "y", "b", "l">>, <<"u", "p", "i", ":", "/", "/", "p", "a", "y", ":", "x", "?", "p", "a", "=", "a", "@", "y", "b", "l">>,
         <<"u", "p", "i", "q", "r">>, <<"h", "t", "t", "p", "s", ":", "/", "/", "p", "a", "y", "?", "p", "a", "=", "a", "@", "b">>, <<" ", "u", "p", "i", ":", "/", "/", "p", "a", "y", "?", "p", "a", "=", "a", "@", "b">>, <<"U", "P", "I", ":", "/", "/", "p", "a", "y", "?", "p", "a", "=", "a", "@", "b">>,
         <<"p", "a", "y", "?", "p", "a", "=", "a", "@", "b">> }

\* lines of a text payload
TextLines ==
  { <<"a", "@", "y", "b", "l">>, <<"s", "h", "o", "p", "@", "p", "a", "y", "t", "m">>, <<" ", "b", "@", "g", "p", "a", "y", " ">>, <<"x", "@", "y">>, <<"T", "e", "a", " ", "S", "h", "o", "p">>, <<"M", "a", "r", "t">>,
    <<"A", "m", "o", "u", "n", "t", ":", " ", "R", "s", " ", "2", "0">>, <<"r", "s", " ", "5", ".", "5", "0", " ", "7">>, <<"B", "a", "z", "a", "a", "r", " ", "7">>, <<"u", "p", "i", "q", "r">> }

TextPayloads ==
  {join(ls, <<"\n">>) : ls \in Arrangements(TextLines, MaxLines)}

\* members of a JSON payload
JsonMembers ==
  { <<"\"", "v", "p", "a", "\"", ":", "\"", "a", "@", "y", "b", "l", "\"">>, <<"\"", "v", "p", "a", "\"", ":", "\"", "a", "@", "b", "\"">>, <<"\"", "u", "p", "i", "\"", ":", "\"", "\"">>, <<"\"", "p", "a", "y", "e", "e", "A", "d", "d", "r", "e", "s", "s", "\"", ":", "\"", "c", "@", "d", "\"">>,
    <<"\"", "v", "p", "a", "\"", ":", "[", "]">>, <<"\"", "v", "p", "a", "\"", ":", "5">>, <<"\"", "n", "a", "m", "e", "\"", ":", "\"", "T", "e", "a", "\"">>, <<"\"", "a", "m", "o", "u", "n", "t", "\"", ":", "5", "0">>, <<"\"", "a", "m", "o", "u", "n", "t", "\"", ":", "0">>,
    <<"\"", "a", "m", "o", "u", "n", "t", "\"", ":", "5", ".", "5", "0">>, <<"\"", "a", "m", "\"", ":", "\"", "7", "\"">>, <<"\"", "a", "m", "o", "u", "n", "t", "\"", ":", "{", "\"", "t", "o", "S", "t", "r", "i", "n", "g", "\"", ":", "1", "}">>, <<"\"", "n", "o", "t", "e", "\"", ":", "\"", "u", "p", "i", "q", "r", "\"">>,
    <<"\"", "t", "n", "\"", ":", "\"", "h", "i", "\"">>, <<"\"", "m", "c", "\"", ":", "\"", "M", "1", "\"">>, <<"\"", "n", "a", "m", "e", "\"", ":", "{", "\"", "t", "o", "S", "t", "r", "i", "n", "g", "\"", ":", "1", "}">> }

JsonPayloads ==
  {<<"{">> \o join(ms, <<",">>) \o <<"}">> : ms \in Arrangements(JsonMembers, MaxMembers)}
  \cup { <<"{", " ", "\"", "v", "p", "a", "\"", " ", ":", " ", "\"", "a", "@", "b", "\"", " ", "}">>, <<"n", "u", "l", "l">>, <<"5">>, <<"[", "]">>, <<"t", "r", "u", "e">>, <<"\"", "a", "@", "b", "\"">>, <<"{">>, <<"{", "\"", "v", "p", "a", "\"", ":", "}">>,
         <<"[", "{", "\"", "v", "p", "a", "\"", ":", "\"", "a", "@", "b", "\"", "}", "]">>, <<"{", "\"", "v", "p", "a", "\"", ":", "\"", "a", "@", "b", "\"", ",", "}">>, <<"{", "\"", "v", "p", "a", "\"", ":", "\"", "a", "@", "b", "\"", "}", " ", "x">> }

Payloads == UrlPayloads \cup TextPayloads \cup JsonPayloads

\* ------------------------------------------------------------- component
\* nothing has been decoded
ScannerInit ==
  /\ lastScannedData = << >>
  /\ scanned = NoData("none")
  /\ error = ""

\* the scanner has decoded a QR code and is about to call handleUPIScan
ScannerDecoded ==
  /\ lastScannedData \in Payloads
  /\ scanned = NoData("none")
  /\ error = ""

\* the template string `${upiData.payeeName} (${upiData.payeeAddress})` of
\* handleUPIScan throws when a field cannot be made a string
debugInfoThrows(upiData) ==
  toString(upiData.payeeName).threw \/ toString(upiData.payeeAddress).threw

\* handleUPIScan(result.data): scanned is what parseUPIQRCode gave; the
\* handler passes it to onScan, or sets an error message
handleUPIScan ==
  /\ scanned.kind = "none"
  /\ scanned' = parseUPIQRCode(lastScannedData)
  /\ error' = IF scanned'.kind = "null" THEN "This is not a valid UPI QR code"
              ELSE IF scanned'.kind = "throws" THEN "Failed to parse QR code data"
              ELSE IF debugInfoThrows(scanned') THEN "Failed to parse QR code data"
              ELSE error
  /\ UNCHANGED <<lastScannedData, notScanner>>

ScannerNext == handleUPIScan

\* ======================================================================
\* Specifications: one part of the program moves, the others are at rest
\* ======================================================================
allVars == <<vars, oracleVars, pollerVars, scannerVars>>

Init == LedgerInit /\ OracleInit /\ PollerInit /\ ScannerInit

\* a QR code has been decoded
InitScanner == LedgerInit /\ OracleInit /\ PollerInit /\ ScannerDecoded

Spec == Init /\ [][Next]_allVars

SpecOracle == Init /\ [][OracleNext]_allVars

SpecPoller == Init /\ [][PollerNext]_allVars

SpecScanner == InitScanner /\ [][ScannerNext]_allVars

\* ======================================================================
\* Properties of the payment state machine
\* ======================================================================
Rows == 1..Len(payments)

\* the on-chain lookup reported a transaction that exists, succeeded and has
\* a payload referencing the escrow address
LookupProves(tx) == tx.kind = "tx" /\ tx.success = TRUE /\ tx.payload = "escrow"

\* C1: a payment whose status is completed has had status confirmed at some
\* earlier time.
C1_CompletedOnlyAfterConfirmed ==
  \A i \in Rows : payments[i].status = "completed" => i \in everConfirmed

\* C2: completed and failed are terminal: no step changes the status of a
\* payment whose status is completed or failed.
C2_TerminalStatesAreTerminal ==
  [][\A i \in Rows :
        payments[i].status \in {"completed", "failed"}
          => payments'[i].status = payments[i].status]_vars

\* C3: a webhook whose signature does not verify against the shared secret
\* changes no payment.
C3_UnverifiedWebhookDiscarded ==
  [][\A body \in WebhookBodies : \A sig \in Signatures(body) :
        (~verifyWebhookSignature(body, sig) /\ handleUpiWebhook(body, sig))
          => payments' = payments]_vars

\* C4: the provider is sent at most one payout request for one payment.
C4_AtMostOnePayoutRequest ==
  \A i \in Rows : Cardinality({q \in provider : q.transactionId = i}) <= 1

\* C5: confirmPayment on a payment that is confirmed or completed returns
\* success and leaves status, chain transaction hash and payoutId as they were.
C5_ReconfirmIsNoOp ==
  [][\A r \in Suspended :
        ( /\ r.transactionId \in Rows
          /\ payments[r.transactionId].status \in {"confirmed", "completed"}
          /\ confirmPayment_update(r) )
        => /\ lastOp'.op = "confirmPayment" /\ lastOp'.ok
           /\ payments'[r.transactionId].status = payments[r.transactionId].status
           /\ payments'[r.transactionId].aptosTransactionHash
                 = payments[r.transactionId].aptosTransactionHash
           /\ payments'[r.transactionId].upiPayoutId
                 = payments[r.transactionId].upiPayoutId]_vars

\* C6: initiateUpiPayout rejects, sends nothing and changes nothing for a
\* payment that is missing or not confirmed, and whenever a payout request is
\* sent to the provider the payment's status at that moment is confirmed.
C6_PayoutOnlyWhenConfirmed ==
  [][ /\ \A id \in TransactionIds :
           ( /\ ~(id \in Rows /\ payments[id].status = "confirmed")
             /\ initiateUpiPayout_read(id, TRUE) )
           => /\ lastOp'.op = "initiateUpiPayout" /\ ~lastOp'.ok
              /\ UNCHANGED <<payments, provider, inflight>>
      /\ \A q \in provider' \ provider :
           payments[q.transactionId].status = "confirmed" ]_vars

\* C7: a handler reaches the UPDATE that sets confirmed only with a submitted
\* hash whose lookup reported an existing, successful transaction referencing
\* the escrow address; a step makes a status confirmed only by such a handler;
\* and confirmPayment with any other lookup result rejects and changes nothing.
C7_ConfirmedOnlyWhenVerified ==
  /\ [](\A r \in Suspended :
          r.kind = "confirm" => LookupProves(r.tx) /\ r.hash # NoHash)
  /\ [][ /\ \A i \in Rows :
              ( /\ payments'[i].status = "confirmed"
                /\ \/ payments[i].status # "confirmed"
                   \/ payments'[i].aptosTransactionHash # payments[i].aptosTransactionHash )
              => \E r \in Suspended :
                    /\ r.kind = "confirm" /\ r.transactionId = i
                    /\ r.hash = payments'[i].aptosTransactionHash
                    /\ LookupProves(r.tx)
         /\ \A id \in TransactionIds, h \in Hashes, tx \in TxOutcomes :
              (~LookupProves(tx) /\ confirmPayment_verify(id, h, tx))
              => /\ lastOp'.op = "confirmPayment" /\ ~lastOp'.ok
                 /\ UNCHANGED <<payments, inflight>> ]_vars

\* C7 witness: a confirmation has just set a payment to confirmed.
C7_Witness ==
  /\ lastOp.op = "confirmPayment" /\ lastOp.ok
  /\ \E i \in Rows : /\ payments[i].status = "confirmed"
                     /\ payments[i].aptosTransactionHash \in Hashes

\* C8: when the lookup of confirmPayment does not prove the payment, a pending
\* or confirmed payment moves to failed.
C8_RejectionMovesToFailed ==
  [][\A id \in Rows, h \in Hashes, tx \in TxOutcomes :
        ( /\ ~LookupProves(tx)
          /\ payments[id].status \in {"pending", "confirmed"}
          /\ confirmPayment_verify(id, h, tx) )
        => payments'[id].status = "failed"]_vars

\* C9: a correctly signed webhook whose status is neither SUCCESS nor FAILED
\* leaves a confirmed payment confirmed.
C9_UnresolvedPayoutIsNoOp ==
  [][\A body \in WebhookBodies :
        ( /\ body.status \notin {"SUCCESS", "FAILED"}
          /\ body.transactionId \in Rows
          /\ payments[body.transactionId].status = "confirmed"
          /\ handleUpiWebhook(body, Hmac(secretKey, body)) )
        => payments'[body.transactionId].status = "confirmed"]_vars

\* C10: when the provider call of initiateUpiPayout settles, with any outcome,
\* the handler answers success, the payoutId it answers with is stored on the
\* payment, and a provider failure (reported or thrown) is answered as the
\* payout status FAILED.
C10_PayoutIdPersistedOnAnyOutcome ==
  [][\A r \in Suspended, o \in ProviderOutcomes :
        initiateUpiPayout_persist(r, o)
        => /\ lastOp'.op = "initiateUpiPayout" /\ lastOp'.ok
           /\ lastOp'.payoutId # NoPayout
           /\ payments'[r.transactionId].upiPayoutId = lastOp'.payoutId
           /\ (o \in {"FAILED", "error"} => lastOp'.payoutStatus = "FAILED")]_vars

\* C10 witness: a payout answered FAILED and its payoutId is on the payment.
C10_Witness ==
  /\ lastOp.op = "initiateUpiPayout" /\ lastOp.ok
  /\ lastOp.payoutStatus = "FAILED"
  /\ \E i \in Rows : payments[i].upiPayoutId = lastOp.payoutId

\* the failure reason a stored row carries: the empty string when the row has
\* no such column (Payment, mapRowToPayment)
failureReason(row) ==
  IF "failureReason" \in DOMAIN row THEN row.failureReason ELSE ""

\* C11: when a correctly signed webhook reports FAILED for a confirmed payment,
\* the payment is stored as failed together with a non-empty reason string.
C11_PayoutFailureCarriesReason ==
  [][\A body \in WebhookBodies :
        ( /\ body.status = "FAILED"
          /\ body.transactionId \in Rows
          /\ payments[body.transactionId].status = "confirmed"
          /\ handleUpiWebhook(body, Hmac(secretKey, body)) )
        => /\ payments'[body.transactionId].status = "failed"
           /\ failureReason(payments'[body.transactionId]) # ""]_vars

\* C12: on a pending payment, confirmPayment with a hash whose lookup proves
\* the payment proceeds to the UPDATE and the UPDATE stores confirmed with that
\* hash; on a confirmed payment, a correctly signed SUCCESS webhook stores
\* completed.
C12_NormalPath ==
  [][ /\ \A id \in Rows, h \in Hashes, tx \in TxOutcomes :
           ( /\ LookupProves(tx)
             /\ payments[id].status = "pending"
             /\ confirmPayment_verify(id, h, tx) )
           => /\ Req("confirm", id, h, tx, "update", NoPayout) \in BagToSet(inflight')
              /\ payments' = payments
      /\ \A r \in Suspended :
           ( /\ r.transactionId \in Rows
             /\ payments[r.transactionId].status = "pending"
             /\ confirmPayment_update(r) )
           => /\ payments'[r.transactionId].status = "confirmed"
              /\ payments'[r.transactionId].aptosTransactionHash = r.hash
              /\ lastOp'.op = "confirmPayment" /\ lastOp'.ok
      /\ \A body \in WebhookBodies :
           ( /\ body.status = "SUCCESS"
             /\ body.transactionId \in Rows
             /\ payments[body.transactionId].status = "confirmed"
             /\ handleUpiWebhook(body, Hmac(secretKey, body)) )
           => /\ payments'[body.transactionId].status = "completed"
              /\ lastOp'.op = "handleUpiWebhook" /\ lastOp'.ok ]_vars

\* C12 witness: a payment that was confirmed with a submitted hash has just
\* been completed by a webhook.
C12_Witness ==
  /\ lastOp.op = "handleUpiWebhook" /\ lastOp.ok
  /\ \E i \in Rows : /\ payments[i].status = "completed"
                     /\ i \in everConfirmed
                     /\ payments[i].aptosTransactionHash \in Hashes

\* C13: a payment is created pending with the amountINR of the request, the
\* exchange rate obtained for the request and stablecoinAmount = amountINR /
\* exchangeRate, and no step changes amountINR, stablecoinAmount or
\* exchangeRate of a stored payment.
C13_AmountSnapshotIsFixed ==
  /\ [](\A i \in Rows :
          payments[i].stablecoinAmount
            = [num |-> payments[i].amountINR, den |-> payments[i].exchangeRate])
  /\ [][ /\ \A i \in Rows :
              /\ i \in 1..Len(payments')
              /\ payments'[i].amountINR = payments[i].amountINR
              /\ payments'[i].stablecoinAmount = payments[i].stablecoinAmount
              /\ payments'[i].exchangeRate = payments[i].exchangeRate
         /\ \A i \in (1..Len(payments')) \ Rows :
              /\ payments'[i].status = "pending"
              /\ \E a \in AmountsINR, x \in ExchangeRates :
                    /\ initiatePayment(TRUE, a, x)
                    /\ payments'[i].amountINR = a
                    /\ payments'[i].exchangeRate = x
                    /\ payments'[i].stablecoinAmount = [num |-> a, den |-> x] ]_vars

\* C13 witness: a payment created at one rate has since been confirmed and
\* completed, and a payment created after it holds another rate.
C13_Witness ==
  \E i \in Rows, j \in Rows :
     /\ i < j
     /\ payments[i].exchangeRate # payments[j].exchangeRate
     /\ payments[i].status = "completed"
     /\ payments[i].aptosTransactionHash \in Hashes

\* ======================================================================
\* Properties of OracleService
\* ======================================================================
\* C14: a call of getExchangeRate that finds an entry younger than the 60
\* seconds of cacheTimeout returns the rate of the entry, starts no request to
\* a source and leaves the cache alone; a call for a supported pair that finds
\* an entry of 60 seconds or older starts a request to the primary source.
C14_CachedWithinTTL ==
  [][\A pair \in Pairs :
        getExchangeRate_start(pair)
        => /\ ( cache[pair].present /\ now - cache[pair].timestamp < cacheTimeout )
              => /\ lastCall' = Returned(pair, FALSE, cache[pair].rate, "cache")
                 /\ fetching' = fetching
                 /\ cache' = cache
           /\ ( cache[pair].present /\ now - cache[pair].timestamp >= cacheTimeout )
              => /\ fetching' = fetching (+) SetToBag({Call(pair, cache[pair], "primary")})
                 /\ lastCall' = lastCall ]_oracleVars

\* C14 witness: a call has been answered from the cache, and a later call that
\* found an expired entry is waiting for the primary source.
C14_Witness ==
  /\ lastCall.via = "cache"
  /\ \E c \in Fetching :
        /\ c.pc = "primary"
        /\ c.cached.present
        /\ now - c.cached.timestamp >= cacheTimeout

\* C15: when the primary source has failed and the secondary source fails too,
\* a call that found an (expired) cache entry returns the rate of that entry.
C15_StaleCacheBeforeHardcoded ==
  [][\A c \in Fetching, reply \in SourceReplies :
        ( /\ c.cached.present
          /\ ~IsUsable(reply)
          /\ getExchangeRate_resume(c, reply) )
        => /\ ~lastCall'.raised
           /\ lastCall'.pair = c.pair
           /\ lastCall'.rate = c.cached.rate ]_oracleVars

\* C16: no call of getExchangeRate raises and every call that returns resolves
\* to a positive rate, for supported and unsupported pairs and for every
\* combination of source failures; a call that found no cache entry and whose
\* two sources fail returns the hardcoded rate (84, or its inverse for
\* INR/USDC), and a call for an unsupported pair returns the hardcoded 0.012.
C16_NeverRaises ==
  /\ [](/\ ~lastCall.raised
        /\ lastCall.via # "none" => lastCall.rate.num > 0 /\ lastCall.rate.den > 0)
  /\ [][ /\ \A pair \in Pairs :
              ( ~IsSupported(pair) /\ ~cache[pair].present
                /\ getExchangeRate_start(pair) )
              => lastCall' = Returned(pair, FALSE, Rate(12, 1000), "hardcoded")
         /\ \A c \in Fetching, reply \in SourceReplies :
              ( ~c.cached.present /\ ~IsUsable(reply)
                /\ getExchangeRate_resume(c, reply) )
              => /\ lastCall'.pair = c.pair /\ ~lastCall'.raised
                 /\ lastCall'.rate = IF c.pair = <<"USDC", "INR">>
                                      THEN Rate(84, 1) ELSE Rate(1, 84) ]_oracleVars

\* C16 witness: a call for INR/USDC that found no cache entry has returned
\* after both sources failed.
C16_Witness ==
  /\ lastCall.pair = <<"INR", "USDC">>
  /\ lastCall.via = "hardcoded"
  /\ ~lastCall.raised

\* ======================================================================
\* Properties of the poller
\* ======================================================================
\* C17: at most one poll of listenToPaymentEvents is in flight at any time.
C17_AtMostOnePollInFlight == polling <= 1

\* ======================================================================
\* Properties of the QR payload parser
\* ======================================================================
\* C18: parseUPIQRCode raises for no input: it returns UPIData or null, and
\* null is the only sign of failure (handleUPIScan reports an invalid QR code
\* exactly when it got null).
C18_ParserNeverRaises ==
  /\ scanned.kind \in {"none", "null", "UPIData"}
  /\ scanned.kind = "null" <=> error = "This is not a valid UPI QR code"

\* C18 witness: the payload begins with upi://pay, new URL has thrown on it,
\* and parseUPIQRCode has returned null.
C18_Witness ==
  /\ scanned.kind = "null"
  /\ startsWith(lastScannedData, <<"u", "p", "i", ":", "/", "/", "p", "a", "y">>)
  /\ ~newURL(lastScannedData).ok
  /\ error = "This is not a valid UPI QR code"

\* String(v) === '' for a value v that parseUPIQRCode stores as payeeAddress
IsEmpty(v) == ~toString(v).threw /\ toString(v).s = << >>

\* C19: the payeeAddress of every UPIData that parseUPIQRCode returns is not
\* empty.
C19_PayeeAddressNonEmpty ==
  scanned.kind = "UPIData" => ~IsEmpty(scanned.payeeAddress)

\* the predicates of the three dialects: the payload begins with upi://pay;
\* it contains @ and a provider handle; it is a JSON object with one of the
\* keys upi, vpa, payeeAddress
IsUrlForm(d) == startsWith(d, <<"u", "p", "i", ":", "/", "/", "p", "a", "y">>)
IsHeuristicForm(d) ==
  /\ includes(d, <<"@">>)
  /\ \E h \in {<<"p", "a", "y", "t", "m">>, <<"p", "h", "o", "n", "e", "p", "e">>, <<"g", "p", "a", "y">>, <<"y", "b", "l">>} : includes(d, h)
IsJsonForm(d) ==
  /\ JSONparse(d).ok
  /\ JSONparse(d).v.t = "object"
  /\ \E k \in {<<"u", "p", "i">>, <<"v", "p", "a">>, <<"p", "a", "y", "e", "e", "A", "d", "d", "r", "e", "s", "s">>} : GetProp(JSONparse(d).v, k).t # "undefined"

\* the result of the URL-form parser, null when the URL cannot be parsed
UrlFormResult(d) == IF parseInline(d).kind = "throws" THEN ReturnsNull ELSE parseInline(d)

\* C20: the result is that of the first dialect whose predicate matches, in
\* the order URL form, heuristic form, JSON form: a payload of URL form gets
\* the result of the URL parser, a payload that is not of URL form and is of
\* heuristic form (JSON or not) gets the result of the heuristic parser, and a
\* payload of JSON form alone gets the result of the JSON parser.
C20_FirstDialectDecides ==
  scanned.kind # "none" =>
    LET d == lastScannedData IN
    /\ IsUrlForm(d) => scanned = UrlFormResult(d)
    /\ (~IsUrlForm(d) /\ IsHeuristicForm(d)) => scanned = parseAlternativeUPIFormat(d)
    /\ (~IsUrlForm(d) /\ ~IsHeuristicForm(d) /\ IsJsonForm(d))
          => scanned = parseJSONUPIFormat(JSONparse(d).v)

\* C21: a payload that matches no dialect (it does not begin with upi://pay,
\* does not contain @ together with a provider handle, and is not a JSON object
\* with a upi, vpa or payeeAddress key) gets null from parseUPIQRCode.
C21_NoDialectGivesNull ==
  (/\ scanned.kind # "none"
   /\ ~IsUrlForm(lastScannedData)
   /\ ~IsHeuristicForm(lastScannedData)
   /\ ~IsJsonForm(lastScannedData))
  => scanned.kind = "null"

\* the text of the query of a payload upi://pay?...
QueryText(d) == SubSeq(d, Len(<<"u", "p", "i", ":", "/", "/", "p", "a", "y", "?">>) + 1, Len(d))

\* the parts name=... of the query of d that carry the parameter name
PartsNamed(d, name) ==
  {i \in DOMAIN split(QueryText(d), "&") :
     startsWith(split(QueryText(d), "&")[i], name \o <<"=">>)}

\* the text that follows name= in the one part of the query that carries name
ValueText(d, name) ==
  LET part == split(QueryText(d), "&")[CHOOSE i \in PartsNamed(d, name) : TRUE]
  IN SubSeq(part, Len(name) + 2, Len(part))

\* d is upi://pay? followed by a query of plain characters (no escape, no
\* fragment, no control character) that carries pa, pn and am once each, pa
\* not empty
CarriesPaPnAm(d) ==
  /\ startsWith(d, <<"u", "p", "i", ":", "/", "/", "p", "a", "y", "?">>)
  /\ \A i \in DOMAIN d : d[i] \notin {"#", "+", "%", "\n", "\t", "\r"}
  /\ d[Len(d)] \notin WhiteSpace
  /\ \A name \in {<<"p", "a">>, <<"p", "n">>, <<"a", "m">>} : Cardinality(PartsNamed(d, name)) = 1
  /\ ValueText(d, <<"p", "a">>) # << >>

\* C22: a payload upi://pay?... that carries pa=X, pn=Y and am=Z, in any order
\* of the parameters, gives an intent with payeeAddress X, payeeName Y and
\* amount Z.
C22_FieldsWhateverTheOrder ==
  (scanned.kind # "none" /\ CarriesPaPnAm(lastScannedData)) =>
    /\ scanned.kind = "UPIData"
    /\ scanned.payeeAddress = Str(ValueText(lastScannedData, <<"p", "a">>))
    /\ scanned.payeeName = Str(ValueText(lastScannedData, <<"p", "n">>))
    /\ scanned.amount = Str(ValueText(lastScannedData, <<"a", "m">>))

\* C22 witness: an intent was made from a payload in which am comes before pn
\* and pn before pa.
C22_Witness ==
  /\ scanned.kind = "UPIData"
  /\ CarriesPaPnAm(lastScannedData)
  /\ \E a \in PartsNamed(lastScannedData, <<"a", "m">>), n \in PartsNamed(lastScannedData, <<"p", "n">>),
        p \in PartsNamed(lastScannedData, <<"p", "a">>) : a < n /\ n < p

\* C23: an intent made from a payload of URL form that has no pn parameter has
\* the payeeName "Unknown Merchant".
C23_UrlFormDefaultName ==
  (/\ scanned.kind = "UPIData"
   /\ IsUrlForm(lastScannedData)
   /\ get(newURL(lastScannedData).params, <<"p", "n">>) = Null)
  => scanned.payeeName = Str(<<"U", "n", "k", "n", "o", "w", "n", " ", "M", "e", "r", "c", "h", "a", "n", "t">>)

\* the members of a JSON object payload, and whether it has a member of a name
JsonOf(d) == JSONparse(d).v
HasKey(d, key) == GetProp(JsonOf(d), key).t # "undefined"

\* d is a JSON object with exactly one of the keys upi, vpa, payeeAddress,
\* holding a string that is not empty; its amount is a number; it has no key
\* for a name
IsPlainJsonIntent(d) ==
  /\ JSONparse(d).ok
  /\ JsonOf(d).t = "object"
  /\ Cardinality({k \in {<<"u", "p", "i">>, <<"v", "p", "a">>, <<"p", "a", "y", "e", "e", "A", "d", "d", "r", "e", "s", "s">>} : HasKey(d, k)}) = 1
  /\ \A k \in {<<"u", "p", "i">>, <<"v", "p", "a">>, <<"p", "a", "y", "e", "e", "A", "d", "d", "r", "e", "s", "s">>} :
        HasKey(d, k) => GetProp(JsonOf(d), k).t = "string" /\ GetProp(JsonOf(d), k).s # << >>
  /\ GetProp(JsonOf(d), <<"a", "m", "o", "u", "n", "t">>).t = "number"
  /\ \A k \in {<<"n", "a", "m", "e">>, <<"m", "e", "r", "c", "h", "a", "n", "t", "N", "a", "m", "e">>, <<"p", "a", "y", "e", "e", "N", "a", "m", "e">>} : ~HasKey(d, k)

\* C24: a JSON object payload whose payee key holds a string that is not
\* empty, whose amount is a number and which has no name key gives an intent
\* with that string as payeeAddress, the decimal string of the number as amount
\* and "Unknown Merchant" as payeeName.
C24_JsonFields ==
  (scanned.kind # "none" /\ IsPlainJsonIntent(lastScannedData)) =>
    /\ scanned.kind = "UPIData"
    /\ \E k \in {<<"u", "p", "i">>, <<"v", "p", "a">>, <<"p", "a", "y", "e", "e", "A", "d", "d", "r", "e", "s", "s">>} :
          scanned.payeeAddress = GetProp(JsonOf(lastScannedData), k)
    /\ scanned.amount = Str(GetProp(JsonOf(lastScannedData), <<"a", "m", "o", "u", "n", "t">>).s)
    /\ scanned.payeeName = Str(<<"U", "n", "k", "n", "o", "w", "n", " ", "M", "e", "r", "c", "h", "a", "n", "t">>)

\* C25: the rawData of every intent is the scanned string, character for
\* character.
C25_RawDataIsThePayload ==
  scanned.kind = "UPIData" => scanned.rawData = Str(lastScannedData)

\* the first of the query parameters a and b of a payload that has a value
\* which is not empty, else the empty string
FirstOfParams(d, a, b) ==
  Or(get(newURL(d).params, a), Or(get(newURL(d).params, b), Str(<< >>)))

\* C26: in an intent made from a payload of URL form, amount is read from am
\* or amount, transactionNote from tn or note, merchantCode from mc or mid,
\* transactionRef from tr or tid, and a field is empty when it has neither.
C26_UrlFormFieldSources ==
  (scanned.kind = "UPIData" /\ IsUrlForm(lastScannedData)) =>
    /\ scanned.amount = FirstOfParams(lastScannedData, <<"a", "m">>, <<"a", "m", "o", "u", "n", "t">>)
    /\ scanned.transactionNote = FirstOfParams(lastScannedData, <<"t", "n">>, <<"n", "o", "t", "e">>)
    /\ scanned.merchantCode = FirstOfParams(lastScannedData, <<"m", "c">>, <<"m", "i", "d">>)
    /\ scanned.transactionRef = FirstOfParams(lastScannedData, <<"t", "r">>, <<"t", "i", "d">>)

\* the trimmed lines of a text payload, and those that can be a name: longer
\* than 3, without @ and without a digit
LinesOf(d) == [i \in DOMAIN split(d, "\n") |-> trim(split(d, "\n")[i])]
NameLines(d) ==
  {i \in DOMAIN LinesOf(d) :
     /\ Len(LinesOf(d)[i]) > 3
     /\ \A j \in DOMAIN LinesOf(d)[i] : LinesOf(d)[i][j] \notin Digits \cup {"@"}}

\* d goes to parseAlternativeUPIFormat
IsParsedAsText(d) ==
  /\ ~IsUrlForm(d)
  /\ ~includes(toLowerCase(d), <<"u", "p", "i", ":", "/", "/", "p", "a", "y", "?">>)
  /\ ~includes(toLowerCase(d), <<"u", "p", "i", "q", "r">>)
  /\ IsHeuristicForm(d)

\* C27: in an intent made from a payload of heuristic form, payeeName is the
\* first line that is longer than 3 and has no @ and no digit, and is
\* "Unknown Merchant" when there is no such line.
C27_FirstNameLineWins ==
  (scanned.kind = "UPIData" /\ IsParsedAsText(lastScannedData)) =>
    scanned.payeeName =
      IF NameLines(lastScannedData) = {} THEN Str(<<"U", "n", "k", "n", "o", "w", "n", " ", "M", "e", "r", "c", "h", "a", "n", "t">>)
      ELSE Str(LinesOf(lastScannedData)[CHOOSE i \in NameLines(lastScannedData) :
                                          \A j \in NameLines(lastScannedData) : i <= j])

\* ======================================================================
\* Further properties of the payment state machine
\* ======================================================================
\* C28: no two payments that are confirmed or completed carry the same
\* aptosTransactionHash.
C28_OneHashOnePayment ==
  \A i \in Rows, j \in Rows :
     ( /\ i # j
       /\ payments[i].status \in {"confirmed", "completed"}
       /\ payments[j].status \in {"confirmed", "completed"}
       /\ payments[i].aptosTransactionHash # NoHash )
     => payments[i].aptosTransactionHash # payments[j].aptosTransactionHash

\* C29: when the provider call of initiateUpiPayout settles, with any outcome,
\* the payoutId stored on the payment and answered to the caller is the
\* payout_id of the request that was sent to the provider.
C29_PayoutIdIsTheOneSent ==
  [][\A r \in Suspended, o \in ProviderOutcomes :
        (initiateUpiPayout_persist(r, o) /\ ~WasMocked(r))
        => /\ payments'[r.transactionId].upiPayoutId = r.payoutId
           /\ lastOp'.payoutId = r.payoutId
           /\ [payout_id |-> lastOp'.payoutId, transactionId |-> r.transactionId]
                 \in provider]_vars

\* ======================================================================
\* Further properties of OracleService
\* ======================================================================
\* C30: every entry written to the cache holds a rate that the primary or the
\* secondary source returned to the call that writes it; the hardcoded
\* constant is never written.
C30_CacheHoldsSourceRatesOnly ==
  [][\A pair \in Pairs :
        (cache'[pair] # cache[pair] /\ cache'[pair].present)
        => /\ lastCall'.pair = pair
           /\ lastCall'.rate = cache'[pair].rate
           /\ lastCall'.via \in {"primary", "secondary"} ]_oracleVars
====
